---- MODULE Spec2Model ----
(***************************************************************************)
(* autosklearn/evaluation/abstract_evaluator.py: AbstractEvaluator.        *)
(*                                                                         *)
(* Spec      several evaluator processes (runs) sharing one output_dir:    *)
(*           __init__, fit, finish_up / file_output step by step, the      *)
(*           finish_up signal handler and the external termination.        *)
(* SpecPred  predict_proba / predict_regression and                        *)
(*           _ensure_prediction_array_sizes applied to bounded inputs.     *)
(***************************************************************************)
EXTENDS Integers, Sequences, FiniteSets, TLC

(***************************************************************************)
(* Bounds of the model.                                                    *)
(***************************************************************************)
\* concurrent evaluator processes sharing output_dir
NumRuns == 2
\* time.time() - self.starttime is within -MaxTime..MaxTime: time.time() is the
\* wall clock, which may be set back between the two readings
MaxTime == 1
\* deliveries of the termination signal handled by finish_up, over all runs
MaxSignals == 1
\* run numbers (caller supplied, or handed out by the allocator) are 1..MaxNum
MaxNum == 2
\* the pickled array is written in this many chunks
NumChunks == 2

\* full_class_count (D.info['target_num']) is at most MaxClasses; so is the
\* number of columns of a raw prediction, and labels are 0..MaxClasses-1
MaxClasses == 3
\* a label array (Y_train, D.data['Y_train']) holds 1..MaxLabels labels
MaxLabels == 2
\* a multilabel raw prediction is a list of 1..MaxOutputs arrays
MaxOutputs == 2

Runs == 1..NumRuns
Durations == (0 - MaxTime)..MaxTime
Nums == 1..MaxNum
Chunks == 1..NumChunks

(***************************************************************************)
(* Values.                                                                 *)
(***************************************************************************)
\* os.environ.get('AUTOSKLEARN_SEED'): <<>> is None (unset), <<s>> the string s
EnvValues == {<<>>, <<"1">>}
\* the seed argument of __init__ (an int, printed with %d)
Seeds == {1}
\* errs[metric]: the primary metric's error, in units of 1.0
MetricErrs == {0, 1}
Splits == <<"ensemble", "valid", "test">>
SplitNames == {"ensemble", "valid", "test"}

VARIABLES
    environ,        \* AUTOSKLEARN_SEED in the environment of the processes
    data,           \* the splits the Datamanager provides besides the training data
    phase,          \* phase[r]: where the process of run r is in its main line
    stack,          \* stack[r]: the finish_up invocations in progress, innermost last
    cfg,            \* cfg[r]: the fields __init__ sets (seed, output_y_test, num_run)
    out,            \* out[r]: the 'Result for ParamILS' lines run r has printed
    dirs,           \* the directories that exist
    predFiles,      \* the per-run prediction files: path -> [writers, complete]
    gt,             \* y_optimization.npy: [exists, data], data[k] the writer of chunk k (0: none)
    lock,           \* holder of y_optimization.npy.lock (0: free)
    nextNum,        \* the run-number allocator's counter
    signals,        \* signals delivered so far
    call            \* SpecPred: the last call of a prediction function

vars == <<environ, data, phase, stack, cfg, out, dirs, predFiles, gt, lock,
          nextNum, signals, call>>

lifecycleVars == <<environ, data, phase, stack, cfg, out, dirs, predFiles, gt,
                   lock, nextNum, signals>>

(***************************************************************************)
(* Formatting and paths (file_output, lines 98-103 and 116-117).           *)
(***************************************************************************)
Abs(x) == IF x < 0 THEN -x ELSE x

RECURSIVE Digits(_)
\* str(n) for n >= 0, as the sequence of its decimal digits
Digits(n) == IF n < 10 THEN <<n>> ELSE Append(Digits(n \div 10), n % 10)

RECURSIVE ZfillTo(_, _)
ZfillTo(s, w) == IF Len(s) >= w THEN s ELSE ZfillTo(<<0>> \o s, w)

\* str(self.num_run).zfill(5)
Zfill(n) == ZfillTo(Digits(n), 5)

\* '%s' % seed for the value os.environ.get returned: None prints as 'None'
FmtSeed(e) == IF e = <<>> THEN "None" ELSE e[1]

\* os.path.join(self.output_dir, 'predictions_<split>_<seed>')
PredDir(split, e) == <<"predictions", split, FmtSeed(e)>>

\* a file name without the run number
PredPathNoRun(split, e, n) == <<PredDir(split, e), <<"predictions", split, <<>>>>>>

\* pred_dump_name_template % (split, seed, split)
PredPath(split, e, n) == <<PredDir(split, e), <<"predictions", split, Zfill(n)>>>>

OutputDir == <<"output_dir">>

(***************************************************************************)
(* The stack of finish_up invocations of a run.                            *)
(***************************************************************************)
\* a finish_up invocation at its first statement
NewFrame == [pc |-> "enter", split |-> 0, k |-> 0, seed |-> <<>>, exc |-> ""]

Top(r) == stack[r][Len(stack[r])]

InFrame(r, pcs) == stack[r] # <<>> /\ Top(r).pc \in pcs

Push(r) == [stack EXCEPT ![r] = Append(@, NewFrame)]

SetTop(r, f) == [stack EXCEPT ![r] = [@ EXCEPT ![Len(@)] = f]]

Popped(r) == SubSeq(stack[r], 1, Len(stack[r]) - 1)

\* the process of run r is alive and its evaluator object exists
Alive(r) == phase[r] \in {"FITTING", "FINISHING", "DONE"}

\* the main line's phase once the innermost finish_up invocation has returned
PhaseAfterReturn(r) ==
    IF Len(stack[r]) = 1 /\ phase[r] = "FINISHING" THEN "DONE" ELSE phase[r]

\* the step after the ground-truth block / after a split's block
FirstSplitPc(f) == [f EXCEPT !.pc = "exists", !.split = 1, !.k = 0]

\* every split taken as provided
ProvidedAlways(split) == TRUE

\* Y_valid_pred / Y_test_pred is None exactly when X_valid / X_test is (lines 40-41)
Provided(split) == split = "ensemble" \/ split \in data

\* a file_output without the validation block
AfterSplitSkipsValid(f) ==
    IF f.split \in {1, 2} /\ Provided("test") /\ f.split # 2
    THEN [f EXCEPT !.pc = "exists", !.split = 3]
    ELSE [f EXCEPT !.pc = "finish", !.split = 0]

AfterSplit(f) ==
    IF f.split = 1 /\ Provided("valid") THEN [f EXCEPT !.pc = "exists", !.split = 2]
    ELSE IF f.split \in {1, 2} /\ Provided("test")
    THEN [f EXCEPT !.pc = "exists", !.split = 3]
    ELSE [f EXCEPT !.pc = "finish", !.split = 0]

(***************************************************************************)
(* finish_up's recovery boundary (lines 82, 88).                           *)
(***************************************************************************)
ExceptionClasses == {"ModelError", "LockFailed", "OSError", "FileExistsError",
                     "IOError", "KeyError"}

\* a handler that recovers file-system errors only
CaughtOSErrorOnly(e) == e \in {"OSError", "FileExistsError", "IOError"}

\* except Exception: every exception class is caught
Caught(e) == e \in ExceptionClasses

\* exception e is raised inside file_output in the innermost invocation of run r
Raised(r, e) ==
    IF Caught(e)
    THEN /\ stack' = SetTop(r, [Top(r) EXCEPT !.pc = "except", !.exc = e])
         /\ phase' = phase
    ELSE /\ stack' = [stack EXCEPT ![r] = <<>>]
         /\ phase' = [phase EXCEPT ![r] = "ESCAPED"]

(***************************************************************************)
(* The result line and the files.                                          *)
(***************************************************************************)
\* the error printed on the TIMEOUT line (1.0)
SentinelError == 1

\* the duration printed as it was computed
PrintedDurationRaw(d) == d

\* abs(self.duration), as printed on the result line
PrintedDuration(d) == Abs(d)

\* 'Result for ParamILS: SAT, ...' (lines 85-87)
SatLine(r, d, e) ==
    [status |-> "SAT", duration |-> PrintedDuration(d), err |-> e,
     seed |-> cfg[r].seed, info |-> Zfill(cfg[r].num_run)]

\* 'Result for ParamILS: TIMEOUT, ...' (lines 92-95)
TimeoutLine(r, d) ==
    [status |-> "TIMEOUT", duration |-> PrintedDuration(d), err |-> SentinelError,
     seed |-> cfg[r].seed, info |-> <<>>]

EmptyData == [k \in Chunks |-> 0]

\* open(path, 'w') and pickle.dump by run r: complete, or cut short by an error
Written(path, r, complete) ==
    [p \in DOMAIN predFiles \cup {path} |->
        IF p = path
        THEN [writers |-> (IF p \in DOMAIN predFiles THEN predFiles[p].writers ELSE {})
                            \cup {r},
              complete |-> complete]
        ELSE predFiles[p]]

\* runs with y_optimization.npy open for writing
GtWriters == {r \in Runs : \E i \in DOMAIN stack[r] : stack[r][i].pc = "gt_write"}

\* an acquire that does not wait for the holder
CanAcquireAlways(r) == TRUE

\* LockFile.acquire returns only when nobody holds the lock
CanAcquire(r) == lock = 0

\* the run-number allocator: the next number of a shared counter
GetNewRunNum == nextNum

\* a run that writes the ground truth whatever its configuration
OutputsGroundTruthAlways(r) == TRUE

\* if self.output_y_test (line 105)
OutputsGroundTruth(r) == cfg[r].output_y_test

NoCfg == [seed |-> 0, output_y_test |-> FALSE, num_run |-> 0, allocated |-> FALSE]


(***************************************************************************)
(* Arrays: a 1-D array is [ndim |-> 1, shape |-> <<n>>, v |-> <<x1..xn>>], *)
(* a 2-D array [ndim |-> 2, shape |-> <<n, k>>, v |-> <<row1..rown>>], a   *)
(* Python list of arrays [ndim |-> 0, shape |-> <<len>>, v |-> <<a1..>>].  *)
(* A call returns [exc |-> "", val |-> array] or raises [exc |-> class].   *)
(***************************************************************************)
Tasks == {"BINARY_CLASSIFICATION", "MULTICLASS_CLASSIFICATION",
          "MULTILABEL_CLASSIFICATION", "REGRESSION"}
RegressionTasks == {"REGRESSION"}

\* probabilities / targets, as abstract numbers
Vals == {0, 1}
\* numbers of samples of X
RowCounts == {1, 2}
Labels == 0..(MaxClasses - 1)

A1(x) == [ndim |-> 1, shape |-> <<Len(x)>>, v |-> x]
A2(m, k) == [ndim |-> 2, shape |-> <<Len(m), k>>, v |-> m]
PyList(l) == [ndim |-> 0, shape |-> <<Len(l)>>, v |-> l]
NoArray == [ndim |-> 0, shape |-> <<>>, v |-> <<>>]

Ok(a) == [exc |-> "", val |-> a]
Err(e) == [exc |-> e, val |-> NoArray]

Arrays1 == {A1(x) : x \in UNION {[1..n -> Vals] : n \in RowCounts}}
Arrays2Of(cols) ==
    UNION {{A2(m, k) : m \in [1..n -> [1..k -> Vals]]} : n \in RowCounts, k \in cols}
Arrays == Arrays1 \cup Arrays2Of(1..MaxClasses)

\* what model.predict_proba returns for a multilabel task: one array per label
\* over the same samples
LabelLists ==
    UNION {{PyList(l) : l \in [1..len -> {a \in Arrays2Of(1..2) : a.shape[1] = n}]} :
            n \in RowCounts, len \in 1..MaxOutputs}

\* a label array, or None: [some |-> FALSE]
LabelSeqs == UNION {[1..n -> Labels] : n \in 1..MaxLabels}
NoLabels == [some |-> FALSE, y |-> <<>>]
LabelArgs == {NoLabels} \cup {[some |-> TRUE, y |-> y] : y \in LabelSeqs}

RECURSIVE SortedSeq(_)
SortedSeq(S) ==
    IF S = {} THEN <<>>
    ELSE LET m == CHOOSE x \in S : \A y \in S : x <= y
         IN <<m>> \o SortedSeq(S \ {m})

\* list(np.unique(y)): the distinct labels, ascending
Unique(y) == SortedSeq({y[i] : i \in DOMAIN y})

\* classes.index(c), 0-based
IndexOf(classes, c) == (CHOOSE i \in DOMAIN classes : classes[i] = c) - 1

\* the first column, whatever the index
ColumnReshapedFirst(Y, j) ==
    IF Y.ndim # 2 THEN Err("IndexError")
    ELSE Ok(A2([n \in 1..Y.shape[1] |-> <<Y.v[n][1]>>], 1))

\* Y[:, j].reshape(-1, 1) for a Python index j (negative: from the end)
ColumnReshaped(Y, j) ==
    IF Y.ndim # 2 THEN Err("IndexError")
    ELSE LET i == IF j < 0 THEN Y.shape[2] + j + 1 ELSE j + 1 IN
         IF i < 1 \/ i > Y.shape[2] THEN Err("IndexError")
         ELSE Ok(A2([n \in 1..Y.shape[1] |-> <<Y.v[n][i]>>], 1))

\* np.hstack of (n, 1) arrays
Hstack(cols) ==
    IF \E i \in DOMAIN cols : cols[i].shape[1] # cols[1].shape[1]
    THEN Err("ValueError")
    ELSE Ok(A2([n \in 1..cols[1].shape[1] |-> [i \in DOMAIN cols |-> cols[i].v[n][1]]],
               Len(cols)))

\* an alignment that copies column class_number of the prediction into column index
EnsureSwapped(prediction, Y_train, dlabels, self_task, num_classes) ==
    IF self_task # "MULTICLASS_CLASSIFICATION" THEN Ok(prediction)
    ELSE IF prediction.ndim < 2 THEN Err("IndexError")
    ELSE IF ~(prediction.shape[2] < num_classes) THEN Ok(prediction)
    ELSE
      LET classes == IF Y_train.some THEN Unique(Y_train.y) ELSE Unique(dlabels)
          observed == {c \in 0..(num_classes - 1) : \E i \in DOMAIN classes : classes[i] = c}
          mapping == [index \in {IndexOf(classes, c) : c \in observed} |->
                         CHOOSE c \in observed : IndexOf(classes, c) = index]
      IN IF \E index \in DOMAIN mapping : mapping[index] >= prediction.shape[2]
         THEN Err("IndexError")
         ELSE Ok(A2([n \in 1..prediction.shape[1] |->
                       [col \in 1..num_classes |->
                          IF col - 1 \in DOMAIN mapping
                          THEN prediction.v[n][mapping[col - 1] + 1]
                          ELSE 0]],
                    num_classes))

\* an alignment that is also applied to a prediction of full width
EnsureAlignsFullWidth(prediction, Y_train, dlabels, self_task, num_classes) ==
    IF self_task # "MULTICLASS_CLASSIFICATION" THEN Ok(prediction)
    ELSE IF prediction.ndim < 2 THEN Err("IndexError")
    ELSE IF ~(prediction.shape[2] <= num_classes) THEN Ok(prediction)
    ELSE
      LET classes == IF Y_train.some THEN Unique(Y_train.y) ELSE Unique(dlabels)
          observed == {c \in 0..(num_classes - 1) : \E i \in DOMAIN classes : classes[i] = c}
          mapping == [index \in {IndexOf(classes, c) : c \in observed} |->
                         CHOOSE c \in observed : IndexOf(classes, c) = index]
      IN IF \E index \in DOMAIN mapping : index >= prediction.shape[2]
         THEN Err("IndexError")
         ELSE Ok(A2([n \in 1..prediction.shape[1] |->
                       [col \in 1..num_classes |->
                          IF \E index \in DOMAIN mapping : mapping[index] = col - 1
                          THEN prediction.v[n][
                                 (CHOOSE index \in DOMAIN mapping : mapping[index] = col - 1) + 1]
                          ELSE 0]],
                    num_classes))

\* _ensure_prediction_array_sizes; dlabels is D.data['Y_train']
EnsurePredictionArraySizes(prediction, Y_train, dlabels, self_task, num_classes) ==
    IF self_task # "MULTICLASS_CLASSIFICATION" THEN Ok(prediction)
    ELSE IF prediction.ndim < 2 THEN Err("IndexError")
    ELSE IF ~(prediction.shape[2] < num_classes) THEN Ok(prediction)
    ELSE
      LET classes == IF Y_train.some THEN Unique(Y_train.y) ELSE Unique(dlabels)
          observed == {c \in 0..(num_classes - 1) : \E i \in DOMAIN classes : classes[i] = c}
          \* mapping[index] = class_number
          mapping == [index \in {IndexOf(classes, c) : c \in observed} |->
                         CHOOSE c \in observed : IndexOf(classes, c) = index]
      IN IF \E index \in DOMAIN mapping : index >= prediction.shape[2]
         THEN Err("IndexError")
         ELSE Ok(A2([n \in 1..prediction.shape[1] |->
                       [col \in 1..num_classes |->
                          IF \E index \in DOMAIN mapping : mapping[index] = col - 1
                          THEN prediction.v[n][
                                 (CHOOSE index \in DOMAIN mapping : mapping[index] = col - 1) + 1]
                          ELSE 0]],
                    num_classes))

\* the raw output after the task's branch of predict_proba
Normalized(raw, task_type) ==
    IF task_type = "MULTILABEL_CLASSIFICATION"
    THEN LET cols == [i \in 1..raw.shape[1] |-> ColumnReshaped(raw.v[i], 0 - 1)] IN
         IF \E i \in DOMAIN cols : cols[i].exc # ""
         THEN Err("IndexError")
         ELSE Hstack([i \in DOMAIN cols |-> cols[i].val])
    ELSE IF task_type = "BINARY_CLASSIFICATION"
    THEN IF raw.ndim # 1 THEN ColumnReshaped(raw, 1) ELSE Ok(raw)
    ELSE Ok(raw)

\* predict_proba: raw is what model.predict_proba returned
PredictProba(raw, task_type, Y_train, dlabels, num_classes) ==
    LET n == Normalized(raw, task_type) IN
    IF n.exc # "" THEN n
    ELSE EnsurePredictionArraySizes(n.val, Y_train, dlabels, task_type, num_classes)

\* a regression prediction passed on as the model returned it
PredictRegressionAsIs(raw) == Ok(raw)

\* predict_regression: raw is what model.predict returned
PredictRegression(raw) ==
    IF raw.ndim = 1
    THEN Ok(A2([n \in 1..raw.shape[1] |-> <<raw.v[n]>>], 1))
    ELSE Ok(raw)

\* no call in progress, for a dataset of the given task and number of classes
Idle(t, c) == [fn |-> "none", task |-> t, target_num |-> c, raw |-> NoArray,
               Y_train |-> NoLabels, dlabels |-> <<>>, res |-> Ok(NoArray)]

NoCall == Idle("REGRESSION", 0)

(***************************************************************************)
(* Initial state.                                                          *)
(***************************************************************************)
Init ==
    /\ environ \in EnvValues
    /\ data \in SUBSET {"valid", "test"}
    /\ phase = [r \in Runs |-> "START"]
    /\ stack = [r \in Runs |-> <<>>]
    /\ cfg = [r \in Runs |-> NoCfg]
    /\ out = [r \in Runs |-> <<>>]
    /\ dirs = {}
    /\ predFiles = <<>>
    /\ gt = [exists |-> FALSE, data |-> EmptyData]
    /\ lock = 0
    /\ nextNum = 1
    /\ signals = 0
    /\ call = NoCall

(***************************************************************************)
(* The main line of a run: __init__, fit, finish_up.                       *)
(***************************************************************************)
\* __init__ (lines 27-65): the run number is the caller's or the allocator's;
\* an exception of the allocator leaves the constructor
Construct(r) ==
    /\ phase[r] = "START"
    /\ UNCHANGED <<environ, data, stack, out, dirs, predFiles, gt, lock, signals, call>>
    /\ \E s \in Seeds, y \in BOOLEAN :
        \/ \E n \in Nums :
              /\ cfg' = [cfg EXCEPT ![r] = [seed |-> s, output_y_test |-> y, num_run |-> n,
                                            allocated |-> FALSE]]
              /\ phase' = [phase EXCEPT ![r] = "FITTING"]
              /\ UNCHANGED nextNum
        \/ /\ nextNum <= MaxNum
           /\ cfg' = [cfg EXCEPT ![r] = [seed |-> s, output_y_test |-> y,
                                         num_run |-> GetNewRunNum,
                                         allocated |-> TRUE]]
           /\ nextNum' = nextNum + 1
           /\ phase' = [phase EXCEPT ![r] = "FITTING"]
        \/ /\ phase' = [phase EXCEPT ![r] = "CRASHED"]
           /\ UNCHANGED <<cfg, nextNum>>

\* fit (lines 67-69, overridden) followed by the call of finish_up; an exception
\* of fit reaches the caller
Fit(r) ==
    /\ phase[r] = "FITTING"
    /\ stack[r] = <<>>
    /\ UNCHANGED <<environ, data, cfg, out, dirs, predFiles, gt, lock, nextNum,
                   signals, call>>
    /\ \/ /\ phase' = [phase EXCEPT ![r] = "FINISHING"]
          /\ stack' = Push(r)
       \/ /\ phase' = [phase EXCEPT ![r] = "CRASHED"]
          /\ UNCHANGED stack

\* finish_up as the handler of the termination signal (lines 79-81): it runs on
\* top of whatever the process was doing and returns to it
Signal(r) ==
    /\ Alive(r)
    /\ signals < MaxSignals
    /\ signals' = signals + 1
    /\ stack' = Push(r)
    /\ UNCHANGED <<environ, data, phase, cfg, out, dirs, predFiles, gt, lock,
                   nextNum, call>>

\* the time-budget enforcer ends the process: nothing of it runs any more
Kill(r) ==
    /\ phase[r] \in {"FITTING", "FINISHING"}
    /\ phase' = [phase EXCEPT ![r] = "KILLED"]
    /\ stack' = [stack EXCEPT ![r] = <<>>]
    /\ UNCHANGED <<environ, data, cfg, out, dirs, predFiles, gt, lock, nextNum,
                   signals, call>>

(***************************************************************************)
(* finish_up / file_output, one action per step of the innermost           *)
(* invocation of run r.                                                    *)
(***************************************************************************)
\* lines 98-103: the seed of the environment, predict() (the duration of line 83
\* is set again at line 142 or 89 before it is printed)
Enter(r) ==
    /\ InFrame(r, {"enter"})
    /\ UNCHANGED <<environ, data, cfg, out, dirs, predFiles, gt, lock, nextNum, signals, call>>
    /\ \/ /\ stack' = SetTop(r,
                IF OutputsGroundTruth(r)
                THEN [Top(r) EXCEPT !.pc = "gt_makedirs", !.seed = environ]
                ELSE FirstSplitPc([Top(r) EXCEPT !.seed = environ]))
          /\ UNCHANGED phase
       \/ Raised(r, "ModelError")

\* lines 106-109: os.makedirs(self.output_dir), an OSError is passed over
GtMakedirs(r) ==
    /\ InFrame(r, {"gt_makedirs"})
    /\ dirs' = dirs \cup {OutputDir}
    /\ stack' = SetTop(r, [Top(r) EXCEPT !.pc = "gt_acquire"])
    /\ UNCHANGED <<environ, data, phase, cfg, out, predFiles, gt, lock, nextNum,
                   signals, call>>

\* line 112: with lockfile.LockFile(y_test_filename + '.lock'), entry
GtAcquire(r) ==
    /\ InFrame(r, {"gt_acquire"})
    /\ CanAcquire(r)
    /\ lock' = r
    /\ stack' = SetTop(r, [Top(r) EXCEPT !.pc = "gt_open"])
    /\ UNCHANGED <<environ, data, phase, cfg, out, dirs, predFiles, gt, nextNum,
                   signals, call>>

\* line 113: open(y_test_filename, 'w') creates or truncates the file
GtOpen(r) ==
    /\ InFrame(r, {"gt_open"})
    /\ gt' = [exists |-> TRUE, data |-> EmptyData]
    /\ stack' = SetTop(r, [Top(r) EXCEPT !.pc = "gt_write", !.k = 1])
    /\ UNCHANGED <<environ, data, phase, cfg, out, dirs, predFiles, lock, nextNum,
                   signals, call>>

\* line 114: pickle.dump writes the next chunk at the writer's own offset; the
\* file is closed after the last one
GtWrite(r) ==
    /\ InFrame(r, {"gt_write"})
    /\ gt' = [gt EXCEPT !.data[Top(r).k] = r]
    /\ stack' = SetTop(r, IF Top(r).k = NumChunks
                          THEN [Top(r) EXCEPT !.pc = "gt_release", !.k = 0]
                          ELSE [Top(r) EXCEPT !.k = @ + 1])
    /\ UNCHANGED <<environ, data, phase, cfg, out, dirs, predFiles, lock, nextNum,
                   signals, call>>

\* line 112: the with block is left, the lock released
GtRelease(r) ==
    /\ InFrame(r, {"gt_release"})
    /\ lock' = 0
    /\ stack' = SetTop(r, FirstSplitPc(Top(r)))
    /\ UNCHANGED <<environ, data, phase, cfg, out, dirs, predFiles, gt, nextNum,
                   signals, call>>

\* lines 118, 127, 136: if not os.path.exists(<split>_output_dir)
Exists(r) ==
    /\ InFrame(r, {"exists"})
    /\ stack' = SetTop(r,
          [Top(r) EXCEPT !.pc = IF PredDir(Splits[Top(r).split], Top(r).seed) \in dirs
                                THEN "write" ELSE "makedirs"])
    /\ UNCHANGED <<environ, data, phase, cfg, out, dirs, predFiles, gt, lock,
                   nextNum, signals, call>>

\* lines 119, 128, 137: os.makedirs raises OSError when the directory exists
Makedirs(r) ==
    /\ InFrame(r, {"makedirs"})
    /\ UNCHANGED <<environ, data, cfg, out, predFiles, gt, lock, nextNum, signals, call>>
    /\ LET d == PredDir(Splits[Top(r).split], Top(r).seed) IN
       IF d \in dirs
       THEN /\ Raised(r, "FileExistsError")
            /\ UNCHANGED dirs
       ELSE /\ dirs' = dirs \cup {d, OutputDir}
            /\ stack' = SetTop(r, [Top(r) EXCEPT !.pc = "write"])
            /\ UNCHANGED phase

\* lines 120-122, 129-131, 138-140: the prediction file of the split is written
Write(r) ==
    /\ InFrame(r, {"write"})
    /\ predFiles' = Written(PredPath(Splits[Top(r).split], Top(r).seed, cfg[r].num_run),
                            r, TRUE)
    /\ stack' = SetTop(r, AfterSplit(Top(r)))
    /\ UNCHANGED <<environ, data, phase, cfg, out, dirs, gt, lock, nextNum,
                   signals, call>>

\* lines 142-151 and 85-87: the duration, errs[metric], the SAT line; finish_up returns
Finish(r) ==
    /\ InFrame(r, {"finish"})
    /\ \E d \in Durations, e \in MetricErrs :
        out' = [out EXCEPT ![r] = Append(@, SatLine(r, d, e))]
    /\ stack' = [stack EXCEPT ![r] = Popped(r)]
    /\ phase' = [phase EXCEPT ![r] = PhaseAfterReturn(r)]
    /\ UNCHANGED <<environ, data, cfg, dirs, predFiles, gt, lock, nextNum, signals, call>>

\* an except clause that also removes the prediction files the run has written
ExceptWithRollback(r) ==
    /\ InFrame(r, {"except"})
    /\ \E d \in Durations :
        out' = [out EXCEPT ![r] = Append(@, TimeoutLine(r, d))]
    /\ stack' = [stack EXCEPT ![r] = Popped(r)]
    /\ phase' = [phase EXCEPT ![r] = PhaseAfterReturn(r)]
    /\ predFiles' = [p \in {q \in DOMAIN predFiles : r \notin predFiles[q].writers} |->
                        predFiles[p]]
    /\ UNCHANGED <<environ, data, cfg, dirs, gt, lock, nextNum, signals, call>>

\* lines 88-95: the duration again, the traceback, the TIMEOUT line; finish_up returns
Except(r) ==
    /\ InFrame(r, {"except"})
    /\ \E d \in Durations :
        out' = [out EXCEPT ![r] = Append(@, TimeoutLine(r, d))]
    /\ stack' = [stack EXCEPT ![r] = Popped(r)]
    /\ phase' = [phase EXCEPT ![r] = PhaseAfterReturn(r)]
    /\ UNCHANGED <<environ, data, cfg, dirs, predFiles, gt, lock, nextNum, signals, call>>

\* a step of file_output fails: the lock cannot be set up, the ground-truth file
\* cannot be opened or written (the with blocks close it and release the lock),
\* a directory cannot be created, a prediction file cannot be opened or is cut
\* short, the metric is not among the errors
Fail(r) ==
    /\ UNCHANGED <<environ, data, cfg, out, dirs, gt, nextNum, signals, call>>
    /\ \/ /\ InFrame(r, {"gt_acquire"})
          /\ Raised(r, "LockFailed")
          /\ UNCHANGED <<lock, predFiles>>
       \/ /\ InFrame(r, {"gt_open", "gt_write"})
          /\ Raised(r, "IOError")
          /\ lock' = 0
          /\ UNCHANGED predFiles
       \/ /\ InFrame(r, {"makedirs"})
          /\ Raised(r, "OSError")
          /\ UNCHANGED <<lock, predFiles>>
       \/ /\ InFrame(r, {"write"})
          /\ Raised(r, "IOError")
          /\ \/ UNCHANGED predFiles
             \/ predFiles' = Written(PredPath(Splits[Top(r).split], Top(r).seed,
                                              cfg[r].num_run), r, FALSE)
          /\ UNCHANGED lock
       \/ /\ InFrame(r, {"finish"})
          /\ Raised(r, "KeyError")
          /\ UNCHANGED <<lock, predFiles>>

Step(r) ==
    \/ Construct(r)
    \/ Fit(r)
    \/ Kill(r)
    \/ Enter(r)
    \/ GtMakedirs(r)
    \/ GtAcquire(r)
    \/ GtOpen(r)
    \/ GtWrite(r)
    \/ GtRelease(r)
    \/ Exists(r)
    \/ Makedirs(r)
    \/ Write(r)
    \/ Finish(r)
    \/ Except(r)
    \/ Fail(r)

Next == \E r \in Runs : Step(r)

Spec == Init /\ [][Next]_vars

(***************************************************************************)
(* One run that also receives the termination signal while it runs.        *)
(***************************************************************************)
InitSig ==
    /\ environ \in EnvValues
    /\ data \in SUBSET {"valid", "test"}
    /\ phase = [r \in Runs |-> IF r = 1 THEN "START" ELSE "ABSENT"]
    /\ stack = [r \in Runs |-> <<>>]
    /\ cfg = [r \in Runs |-> NoCfg]
    /\ out = [r \in Runs |-> <<>>]
    /\ dirs = {}
    /\ predFiles = <<>>
    /\ gt = [exists |-> FALSE, data |-> EmptyData]
    /\ lock = 0
    /\ nextNum = 1
    /\ signals = 0
    /\ call = NoCall

NextSig == Next \/ \E r \in Runs : Signal(r)

SpecSig == InitSig /\ [][NextSig]_vars

(***************************************************************************)
(* One run in whose environment AUTOSKLEARN_SEED is set, to the seed the   *)
(* evaluator is constructed with or to another one.                        *)
(***************************************************************************)
SetEnvValues == {<<"1">>, <<"2">>}

InitEnv ==
    /\ environ \in SetEnvValues
    /\ data \in SUBSET {"valid", "test"}
    /\ phase = [r \in Runs |-> IF r = 1 THEN "START" ELSE "ABSENT"]
    /\ stack = [r \in Runs |-> <<>>]
    /\ cfg = [r \in Runs |-> NoCfg]
    /\ out = [r \in Runs |-> <<>>]
    /\ dirs = {}
    /\ predFiles = <<>>
    /\ gt = [exists |-> FALSE, data |-> EmptyData]
    /\ lock = 0
    /\ nextNum = 1
    /\ signals = 0
    /\ call = NoCall

SpecEnv == InitEnv /\ [][Next]_vars

(***************************************************************************)
(* Claims about the run lifecycle and the files.                           *)
(***************************************************************************)
LastLine(lines) == lines[Len(lines)]

\* C1: an exception raised by predict() or by a later step of file_output never
\* leaves finish_up: the invocation goes to its except clause, and its next step
\* (unless the process is killed or interrupted first) prints one line with
\* status TIMEOUT, error 1.0 and a duration >= 0, and returns.
C1_ExceptionBecomesTimeoutLine ==
    [][\A r \in Runs :
         /\ phase'[r] # "ESCAPED"
         /\ (InFrame(r, {"except"}) /\ stack'[r] # stack[r] /\ phase'[r] # "KILLED"
             /\ Len(stack'[r]) <= Len(stack[r]))
              => /\ stack'[r] = Popped(r)
                 /\ Len(out'[r]) = Len(out[r]) + 1
                 /\ LastLine(out'[r]).status = "TIMEOUT"
                 /\ LastLine(out'[r]).err = 1
                 /\ LastLine(out'[r]).duration >= 0
         /\ (stack[r] # <<>> /\ stack'[r] # <<>> /\ Len(stack'[r]) = Len(stack[r])
             /\ Top(r).exc = "" /\ stack'[r][Len(stack'[r])].exc # "")
              => /\ stack'[r][Len(stack'[r])].pc = "except"
                 /\ out'[r] = out[r]
      ]_vars

\* C1 witness: predict() raised, and the run finished normally with one TIMEOUT
\* line and no file.
C1_Witness ==
    \E r \in Runs :
        /\ phase[r] = "DONE"
        /\ Len(out[r]) = 1
        /\ out[r][1].status = "TIMEOUT"
        /\ out[r][1].err = 1
        /\ DOMAIN predFiles = {}
        /\ ~gt.exists

\* C2 (as claimed): no invocation of file_output fails because a prediction
\* directory it found missing exists by the time it calls makedirs.
C2_NoFailureOnExistingDirectory ==
    \A r \in Runs : \A i \in DOMAIN stack[r] : stack[r][i].exc # "FileExistsError"

\* C3: at most one run at a time has y_optimization.npy open for writing, the
\* chunks in the file never come from two writers, and a file whose last chunk
\* is written holds every chunk of that one writer.
C3_ExclusiveWriter ==
    /\ Cardinality(GtWriters) <= 1
    /\ \A j \in Chunks, k \in Chunks :
          (gt.data[j] # 0 /\ gt.data[k] # 0) => gt.data[j] = gt.data[k]
    /\ gt.data[NumChunks] # 0 => \A k \in Chunks : gt.data[k] = gt.data[NumChunks]

\* C3 witness: one run is writing the file under the lock while another run,
\* which also outputs the ground truth, waits for the lock; the file already
\* holds a chunk.
C3_Witness ==
    \E r1 \in Runs, r2 \in Runs :
        /\ r1 # r2
        /\ InFrame(r1, {"gt_write"}) /\ Top(r1).k = NumChunks
        /\ InFrame(r2, {"gt_acquire"})
        /\ lock = r1

\* C4 (as claimed): the lock is held only by a run that is inside its with
\* block; a run that was terminated does not hold it.
C4_LockHeldOnlyInsideWith ==
    \A r \in Runs :
        lock = r => \E i \in DOMAIN stack[r] :
                        stack[r][i].pc \in {"gt_open", "gt_write", "gt_release"}

\* C5 (as claimed): no per-run prediction file is written by more than one run.
C5_NoFileWrittenByTwoRuns ==
    \A p \in DOMAIN predFiles : Cardinality(predFiles[p].writers) <= 1

\* C5 (amended): the runs that wrote one prediction file have the same run
\* number, and two runs that both got their number from the allocator never
\* wrote the same file.
C5_SharedFileMeansSameRunNumber ==
    \A p \in DOMAIN predFiles : \A r1 \in predFiles[p].writers, r2 \in predFiles[p].writers :
        /\ cfg[r1].num_run = cfg[r2].num_run
        /\ (cfg[r1].allocated /\ cfg[r2].allocated) => r1 = r2

\* C5 witness: two runs with different run numbers have written the ensemble
\* file of the same directory, each its own.
C5_Witness ==
    \E r1 \in Runs, r2 \in Runs :
        /\ cfg[r1].num_run # 0 /\ cfg[r2].num_run # 0
        /\ cfg[r1].num_run # cfg[r2].num_run
        /\ PredPath("ensemble", environ, cfg[r1].num_run) \in DOMAIN predFiles
        /\ PredPath("ensemble", environ, cfg[r2].num_run) \in DOMAIN predFiles
        /\ predFiles[PredPath("ensemble", environ, cfg[r1].num_run)].writers = {r1}
        /\ predFiles[PredPath("ensemble", environ, cfg[r2].num_run)].writers = {r2}

\* C6 (as claimed): with AUTOSKLEARN_SEED unset no directory or prediction file
\* is created and no run prints a SAT line.
C6_UnsetSeedIsAnError ==
    environ = <<>> =>
        /\ \A s \in SplitNames : PredDir(s, <<>>) \notin dirs
        /\ DOMAIN predFiles = {}
        /\ \A r \in Runs : \A i \in DOMAIN out[r] : out[r][i].status # "SAT"

\* C7 (as claimed): a run prints at most one result line.
C7_AtMostOneResultLine ==
    \A r \in Runs : Len(out[r]) <= 1

\* C8 (as claimed): no exception of __init__ (the allocator) or of fit reaches
\* the caller.
C8_NoExceptionReachesCaller ==
    \A r \in Runs : phase[r] # "CRASHED"

\* the split a prediction directory / a prediction file belongs to
SplitOfDir(d) == d[2]
SplitOfFile(p) == p[1][2]

\* C11: a split that was not provided (its prediction is None) is skipped: no
\* predictions_valid_<seed> (predictions_test_<seed>) directory is created and
\* no file of that split is written, by any run.
C11_UnprovidedSplitLeavesNoTrace ==
    \A s \in {"valid", "test"} :
        s \notin data =>
            /\ \A d \in dirs : d # OutputDir => SplitOfDir(d) # s
            /\ \A p \in DOMAIN predFiles : SplitOfFile(p) # s

\* C11 witness: no validation split, a test split: a run ended with one SAT line,
\* its ensemble and test files are written, and nothing of the validation split
\* exists.
C11_Witness ==
    \E r \in Runs :
        /\ data = {"test"}
        /\ phase[r] = "DONE"
        /\ Len(out[r]) = 1 /\ out[r][1].status = "SAT"
        /\ PredPath("ensemble", environ, cfg[r].num_run) \in DOMAIN predFiles
        /\ PredPath("test", environ, cfg[r].num_run) \in DOMAIN predFiles
        /\ PredDir("valid", environ) \notin dirs

\* the steps of the ground-truth block of file_output (lines 105-114)
GtBlockPcs == {"gt_makedirs", "gt_acquire", "gt_open", "gt_write", "gt_release"}
\* the steps inside 'with lockfile.LockFile(...)'
GtLockedPcs == {"gt_open", "gt_write", "gt_release"}

\* C12: a run with output_y_test false never enters the ground-truth block: it
\* never acquires the lock and never creates, truncates or writes
\* y_optimization.npy. A run with output_y_test true opens and writes the file
\* only while it holds the lock, and one invocation of file_output opens it once
\* and writes each chunk once, in order.
C12_GroundTruthOnlyWhenConfigured ==
    [][\A r \in Runs :
         /\ \A i \in DOMAIN stack[r] :
               /\ stack[r][i].pc \in GtBlockPcs => cfg[r].output_y_test
               /\ stack[r][i].pc \in GtLockedPcs => lock = r
         /\ (lock' = r /\ lock # r) => cfg[r].output_y_test
         /\ (stack'[r] # stack[r] /\ gt' # gt) =>
               /\ cfg[r].output_y_test
               /\ lock = r
               /\ Top(r).pc \in {"gt_open", "gt_write"}
         /\ (stack[r] # <<>> /\ Len(stack'[r]) = Len(stack[r])) =>
               LET f == Top(r)
                   g == stack'[r][Len(stack'[r])]
               IN /\ g.pc = "gt_open" => f.pc \in {"gt_acquire", "gt_open"}
                  /\ g.pc = "gt_write" =>
                        \/ f.pc = "gt_open" /\ g.k = 1
                        \/ f.pc = "gt_write" /\ g.k \in {f.k, f.k + 1}
      ]_vars

\* C12 witness: a run with output_y_test false has ended with a SAT line while
\* the file holds every chunk of a run with output_y_test true.
C12_Witness ==
    \E r1 \in Runs, r2 \in Runs :
        /\ ~cfg[r1].output_y_test /\ phase[r1] = "DONE"
        /\ Len(out[r1]) = 1 /\ out[r1][1].status = "SAT"
        /\ cfg[r2].output_y_test
        /\ gt.exists /\ \A k \in Chunks : gt.data[k] = r2
        /\ lock = 0

\* where an invocation is in the text of finish_up / file_output: predict(),
\* the ground-truth block, the blocks of the splits in their order, the result
\* line
StepRank(f) ==
    CASE f.pc = "enter" -> 0
      [] f.pc \in GtBlockPcs -> 1
      [] f.pc \in {"exists", "makedirs", "write"} -> 1 + f.split
      [] f.pc = "finish" -> 5
      [] OTHER -> 6

\* the prediction files a step created or changed
ChangedFiles ==
    {p \in DOMAIN predFiles' : p \notin DOMAIN predFiles \/ predFiles'[p] # predFiles[p]}

\* C15: within one run nothing is written before predict() has returned; the
\* invocation goes through ground truth, ensemble, validation, test in this order
\* and each file is written in its own block; the SAT line is printed only when
\* the run has written the ensemble file and the file of every provided split
\* (each complete, unless another run has opened the same path since); so a run
\* with a SAT line has its ensemble prediction file on disk.
C15_WritesOrderedBeforeSat ==
    [][\A r \in Runs :
         /\ (stack[r] # <<>> /\ stack'[r] # stack[r]) =>
               LET f == Top(r) IN
               /\ f.pc = "enter" => (gt' = gt /\ predFiles' = predFiles /\ dirs' = dirs)
               /\ gt' # gt => StepRank(f) = 1
               /\ \A p \in ChangedFiles :
                     /\ f.pc = "write"
                     /\ p = PredPath(Splits[f.split], f.seed, cfg[r].num_run)
                     /\ StepRank(f) = 1 + f.split
         /\ (stack[r] # <<>> /\ Len(stack'[r]) = Len(stack[r])) =>
               StepRank(stack'[r][Len(stack'[r])]) >= StepRank(Top(r))
         /\ (Len(out'[r]) > Len(out[r]) /\ LastLine(out'[r]).status = "SAT") =>
               /\ Top(r).pc = "finish"
               /\ \A sp \in SplitNames :
                     Provided(sp) =>
                        LET p == PredPath(sp, Top(r).seed, cfg[r].num_run) IN
                        /\ p \in DOMAIN predFiles
                        /\ r \in predFiles[p].writers
                        /\ predFiles[p].writers = {r} => predFiles[p].complete
               /\ cfg[r].output_y_test => gt.exists
         /\ (\E i \in DOMAIN out[r] : out[r][i].status = "SAT") =>
               PredPath("ensemble", environ, cfg[r].num_run) \in DOMAIN predFiles
      ]_vars

\* C15 witness: both further splits are provided and the ground truth is
\* output: the run has written the four files and then printed its SAT line.
C15_Witness ==
    \E r \in Runs :
        /\ data = {"valid", "test"}
        /\ cfg[r].output_y_test
        /\ phase[r] = "DONE"
        /\ Len(out[r]) = 1 /\ out[r][1].status = "SAT"
        /\ \A k \in Chunks : gt.data[k] = r
        /\ \A sp \in SplitNames :
              /\ PredPath(sp, environ, cfg[r].num_run) \in DOMAIN predFiles
              /\ predFiles[PredPath(sp, environ, cfg[r].num_run)] =
                    [writers |-> {r}, complete |-> TRUE]

\* C16: nothing is rolled back. No step removes a directory, a prediction file or
\* the ground-truth file; the step that raises changes at most the file it was
\* writing; the except clause of finish_up and the termination of the process
\* leave every directory and file, complete or partial, as it is, and the except
\* clause only prints the TIMEOUT line.
C16_NoRollback ==
    [][/\ dirs \subseteq dirs'
       /\ DOMAIN predFiles \subseteq DOMAIN predFiles'
       /\ gt.exists => gt'.exists
       /\ \A r \in Runs :
            /\ (stack[r] # <<>> /\ Len(stack'[r]) = Len(stack[r])
                /\ Top(r).exc = "" /\ stack'[r][Len(stack'[r])].exc # "") =>
                  /\ dirs' = dirs
                  /\ gt' = gt
                  /\ \A p \in ChangedFiles :
                        /\ Top(r).pc = "write"
                        /\ p = PredPath(Splits[Top(r).split], Top(r).seed, cfg[r].num_run)
            /\ (InFrame(r, {"except"}) /\ Len(stack'[r]) < Len(stack[r])) =>
                  /\ dirs' = dirs /\ predFiles' = predFiles /\ gt' = gt
                  /\ phase'[r] # "KILLED" =>
                        /\ Len(out'[r]) = Len(out[r]) + 1
                        /\ LastLine(out'[r]).status = "TIMEOUT"
            /\ (phase'[r] = "KILLED" /\ phase[r] # "KILLED") =>
                  /\ dirs' = dirs /\ predFiles' = predFiles /\ gt' = gt
                  /\ out' = out
      ]_vars

\* C16 witness: the ensemble file was written and the validation write raised:
\* the run has ended with one TIMEOUT line, its complete ensemble file and its
\* partial validation file are on disk.
C16_Witness ==
    \E r \in Runs :
        /\ phase[r] = "DONE"
        /\ Len(out[r]) = 1 /\ out[r][1].status = "TIMEOUT"
        /\ PredPath("ensemble", environ, cfg[r].num_run) \in DOMAIN predFiles
        /\ predFiles[PredPath("ensemble", environ, cfg[r].num_run)] =
              [writers |-> {r}, complete |-> TRUE]
        /\ PredPath("valid", environ, cfg[r].num_run) \in DOMAIN predFiles
        /\ predFiles[PredPath("valid", environ, cfg[r].num_run)] =
              [writers |-> {r}, complete |-> FALSE]
        /\ PredDir("valid", environ) \in dirs

\* the seed in the name of the directory of a prediction file
SeedOfFile(p) == p[1][3]

\* '%d' % self.seed, as printed on the result line
PrintedSeed(line) == ToString(line.seed)

\* C17 (as claimed): the seed printed on the SAT line of a run is the seed in the
\* names of the directories and files the run wrote.
C17_PrintedSeedIsSeedOfFiles ==
    \A r \in Runs : \A i \in DOMAIN out[r] :
        out[r][i].status = "SAT" =>
            \A p \in DOMAIN predFiles :
                r \in predFiles[p].writers => SeedOfFile(p) = PrintedSeed(out[r][i])

(***************************************************************************)
(* The prediction functions applied to bounded inputs.                     *)
(***************************************************************************)
InitPred ==
    /\ environ = <<>>
    /\ data = {}
    /\ phase = [r \in Runs |-> "ABSENT"]
    /\ stack = [r \in Runs |-> <<>>]
    /\ cfg = [r \in Runs |-> NoCfg]
    /\ out = [r \in Runs |-> <<>>]
    /\ dirs = {}
    /\ predFiles = <<>>
    /\ gt = [exists |-> FALSE, data |-> EmptyData]
    /\ lock = 0
    /\ nextNum = 1
    /\ signals = 0
    /\ call \in {Idle(t, c) : t \in Tasks, c \in 2..MaxClasses}

\* the label arrays a call reads: Y_train is an argument; D.data['Y_train'] is
\* used only when Y_train is None, and only by the multiclass alignment
LabelInputs(t) ==
    IF t = "MULTICLASS_CLASSIFICATION"
    THEN {<<y, <<0>>>> : y \in LabelArgs \ {NoLabels}}
         \cup {<<NoLabels, d>> : d \in LabelSeqs}
    ELSE {<<NoLabels, <<0>>>>, <<[some |-> TRUE, y |-> <<0>>], <<0>>>>}

\* self.predict_function for a classification task
CallPredictProba ==
    /\ call.fn = "none"
    /\ call.task \notin RegressionTasks
    /\ \E raw \in (IF call.task = "MULTILABEL_CLASSIFICATION" THEN LabelLists ELSE Arrays),
          l \in LabelInputs(call.task) :
         call' = [call EXCEPT !.fn = "predict_proba", !.raw = raw, !.Y_train = l[1],
                              !.dlabels = l[2],
                              !.res = PredictProba(raw, call.task, l[1], l[2],
                                                   call.target_num)]
    /\ UNCHANGED lifecycleVars

\* self.predict_function for a regression task
CallPredictRegression ==
    /\ call.fn = "none"
    /\ call.task \in RegressionTasks
    /\ \E raw \in Arrays, l \in LabelInputs(call.task) :
         call' = [call EXCEPT !.fn = "predict_regression", !.raw = raw, !.Y_train = l[1],
                              !.dlabels = l[2], !.res = PredictRegression(raw)]
    /\ UNCHANGED lifecycleVars

\* _ensure_prediction_array_sizes called on a prediction array
CallEnsure ==
    /\ call.fn = "none"
    /\ \E prediction \in Arrays, l \in LabelInputs(call.task) :
         call' = [call EXCEPT !.fn = "ensure", !.raw = prediction, !.Y_train = l[1],
                              !.dlabels = l[2],
                              !.res = EnsurePredictionArraySizes(prediction, l[1], l[2],
                                                                 call.task, call.target_num)]
    /\ UNCHANGED lifecycleVars

\* the call has returned (or raised); the evaluator is ready for the next one
Return ==
    /\ call.fn # "none"
    /\ call' = Idle(call.task, call.target_num)
    /\ UNCHANGED lifecycleVars

NextPred == CallPredictProba \/ CallPredictRegression \/ CallEnsure \/ Return

SpecPred == InitPred /\ [][NextPred]_vars

(***************************************************************************)
(* Claims about the prediction functions.                                  *)
(***************************************************************************)
\* the alignment was called for a multiclass task on a 2-D prediction with
\* fewer columns than full_class_count
AlignmentApplies ==
    /\ call.fn = "ensure"
    /\ call.task = "MULTICLASS_CLASSIFICATION"
    /\ call.raw.ndim = 2
    /\ call.raw.shape[2] < call.target_num

\* the training labels of the call: Y_train if supplied, else the dataset's
ObservedLabels == IF call.Y_train.some THEN call.Y_train.y ELSE call.dlabels

IsObserved(c) == \E i \in DOMAIN ObservedLabels : ObservedLabels[i] = c

\* the position (from 0) of an observed class among the distinct observed
\* labels in ascending order
PositionOf(c) == Cardinality({ObservedLabels[i] : i \in DOMAIN ObservedLabels} \cap 0..(c - 1))

\* the result has the rows of the prediction, full_class_count columns, the
\* column of each observed class copied from its position, zero elsewhere
AlignedResult ==
    /\ call.res.exc = ""
    /\ call.res.val.ndim = 2
    /\ call.res.val.shape = <<call.raw.shape[1], call.target_num>>
    /\ \A c \in 0..(call.target_num - 1), n \in 1..call.raw.shape[1] :
         call.res.val.v[n][c + 1] =
            IF IsObserved(c) THEN call.raw.v[n][PositionOf(c) + 1] ELSE 0

\* every observed class below full_class_count has a column in the prediction
ColumnsCoverObserved ==
    \A c \in 0..(call.target_num - 1) :
        IsObserved(c) => PositionOf(c) < call.raw.shape[2]

\* C9 (as stated): for a multiclass task and any prediction with fewer columns
\* than full_class_count, _ensure_prediction_array_sizes returns the aligned
\* matrix: same rows, full_class_count columns, column c the prediction column
\* at the position of c among the sorted distinct observed labels, zero for a
\* class that was not observed.
C9_AlignedForEveryNarrowPrediction == AlignmentApplies => AlignedResult

\* C9 (amended): the aligned matrix is returned when the prediction has a column
\* at the position of every observed class below full_class_count; when it has
\* not, the call raises IndexError and returns nothing.
C9_AlignedWhenColumnsCoverObserved ==
    AlignmentApplies =>
        IF ColumnsCoverObserved THEN AlignedResult ELSE call.res.exc = "IndexError"

\* observed {0,2} of 3 classes, given unsorted: output columns 0,2 are the
\* input columns 0,1 and column 1 is zero
C9_Witness ==
    /\ AlignmentApplies
    /\ call.target_num = 3
    /\ call.Y_train = [some |-> TRUE, y |-> <<2, 0>>]
    /\ call.raw.v = <<<<0, 1>>, <<1, 1>>>>
    /\ call.res.val.v = <<<<0, 0, 1>>, <<1, 0, 1>>>>

\* the number of samples of a raw model output
RawRows == IF call.raw.ndim = 0 THEN call.raw.v[1].shape[1] ELSE call.raw.shape[1]

\* the column count the task declares for a prediction matrix
DeclaredColumns ==
    CASE call.task = "MULTICLASS_CLASSIFICATION" -> call.target_num
      [] call.task = "MULTILABEL_CLASSIFICATION" -> call.raw.shape[1]
      [] OTHER -> 1

\* C10: the array returned by the prediction function (predict_proba for a
\* classification task, predict_regression for a regression task) is
\* 2-dimensional, has one row per input sample, and has 1 column for binary and
\* regression tasks, full_class_count columns for multiclass tasks and one
\* column per label for multilabel tasks, whatever the raw model output.
C10_PredictionMatrixShape ==
    (call.fn \in {"predict_proba", "predict_regression"} /\ call.res.exc = "") =>
        /\ call.res.val.ndim = 2
        /\ call.res.val.shape = <<RawRows, DeclaredColumns>>

\* C13: outside its applicability condition the alignment is the identity: a
\* prediction of a task that is not multiclass, and a multiclass prediction with
\* exactly full_class_count columns, are returned unchanged; and aligning what
\* the alignment returned gives it back unchanged.
C13_IdentityOutsideApplicability ==
    call.fn = "ensure" =>
        /\ (\/ call.task # "MULTICLASS_CLASSIFICATION"
            \/ call.raw.ndim = 2 /\ call.raw.shape[2] = call.target_num)
              => call.res = Ok(call.raw)
        /\ call.res.exc = ""
              => EnsurePredictionArraySizes(call.res.val, call.Y_train, call.dlabels,
                                            call.task, call.target_num) = call.res

\* C13 witness: a multiclass prediction with 3 of 3 columns is returned as it is,
\* although only class 0 was observed.
C13_Witness ==
    /\ call.fn = "ensure"
    /\ call.task = "MULTICLASS_CLASSIFICATION"
    /\ call.target_num = 3
    /\ call.Y_train = [some |-> TRUE, y |-> <<0>>]
    /\ call.raw.ndim = 2
    /\ call.raw.v = <<<<0, 1, 1>>, <<1, 1, 0>>>>
    /\ call.res.exc = ""
    /\ call.res.val.v = <<<<0, 1, 1>>, <<1, 1, 0>>>>

\* C14: for a binary raw prediction of shape (n,2), predict_proba returns shape
\* (n,1) holding column 1 of the input; for a multilabel raw prediction of k
\* arrays of shape (n,2) it returns shape (n,k) whose column i is column 1 of
\* input array i.
C14_PositiveClassColumn ==
    call.fn = "predict_proba" =>
        /\ (call.task = "BINARY_CLASSIFICATION" /\ call.raw.ndim = 2
            /\ call.raw.shape[2] = 2)
              => /\ call.res.exc = ""
                 /\ call.res.val.ndim = 2
                 /\ call.res.val.shape = <<call.raw.shape[1], 1>>
                 /\ \A n \in 1..call.raw.shape[1] :
                       call.res.val.v[n] = <<call.raw.v[n][2]>>
        /\ (call.task = "MULTILABEL_CLASSIFICATION"
            /\ \A i \in 1..call.raw.shape[1] : call.raw.v[i].shape[2] = 2)
              => /\ call.res.exc = ""
                 /\ call.res.val.ndim = 2
                 /\ call.res.val.shape = <<call.raw.v[1].shape[1], call.raw.shape[1]>>
                 /\ \A n \in 1..call.raw.v[1].shape[1], i \in 1..call.raw.shape[1] :
                       call.res.val.v[n][i] = call.raw.v[i].v[n][2]

\* C14 witness: two labels, two samples: the result's columns are the second
\* columns of the two arrays.
C14_Witness ==
    /\ call.fn = "predict_proba"
    /\ call.task = "MULTILABEL_CLASSIFICATION"
    /\ call.raw.shape = <<2>>
    /\ call.raw.v[1].v = <<<<1, 0>>, <<0, 1>>>>
    /\ call.raw.v[2].v = <<<<0, 1>>, <<0, 1>>>>
    /\ call.res.exc = ""
    /\ call.res.val.v = <<<<0, 1>>, <<1, 1>>>>

====
